---------------------------- MODULE Spec2Model ----------------------------
(***************************************************************************)
(* A model of the Grok MCP server (src/src/server.py, src/src/utils.py):   *)
(* its tool handlers, the module-level conversation_history that chat      *)
(* reads and writes, and the capability helpers of utils.py.               *)
(*                                                                         *)
(* A tool invocation runs in a session.  It executes without suspension up *)
(* to its "await client.post/get/delete" (the ...Call actions), and from   *)
(* the arrival of the HTTP response to its return or raise (the            *)
(* ...Response actions); where invocations overlap, the second suspension  *)
(* of chat at "await client.aclose()" is a step of its own.  Python's None *)
(* is the empty tuple and a present value v is <<v>>; a dict key that is   *)
(* absent is None.                                                         *)
(***************************************************************************)
EXTENDS Naturals, Sequences, FiniteSets

VARIABLES
    XAI_API_KEY,            \* os.environ holds a non-empty XAI_API_KEY
    conversation_history,   \* server.py:24, the module-level list
    pc,                     \* per session: idle, awaiting, closing, returned, raised
    call,                   \* per session: the arguments of the invocation
    entry_history,          \* per session: conversation_history when the invocation began
    request,                \* per session: the request handed to the HTTP client, or None
    response,               \* per session: the HTTP response received, or None
    client,                 \* per session: the httpx.AsyncClient of the invocation
    opened,                 \* per session: the image files the invocation has opened and read
    outcome                 \* per session: the value returned or the exception raised

vars == <<XAI_API_KEY, conversation_history, pc, call, entry_history,
          request, response, client, opened, outcome>>

---------------------------------------------------------------------------
(* Optional values and Python truthiness *)

None == <<>>
Some(v) == <<v>>
Val(o) == o[1]

\* bool(x) of an Optional[str]: None and "" are falsy
TruthyStr(o) == o # None /\ Val(o) # ""
\* bool(x) of an Optional[list]: None and [] are falsy
TruthyList(o) == o # None /\ Val(o) # <<>>

---------------------------------------------------------------------------
(* Bounds of the model *)

\* conversation_history holds at most MaxTurns user/assistant pairs
MaxTurns == 2
\* the "output" array of a stateful response holds at most MaxItems items
MaxItems == 3

Sessions == {"s1", "s2"}

Prompts == {"p1", "p2"}
Replies == {"a1", "a2"}

Models == {"grok-4", "grok-3-mini", "grok-3-mini-fast",
           "grok-4-1-fast-reasoning", "grok-4-1-fast-non-reasoning"}

SystemPrompts == {None, Some(""), Some("sys")}
ReasoningEfforts == {None, Some(""), Some("low"), Some("high"), Some("medium")}
\* temperature, max_tokens and top_p: all absent or all given
Samplings == {<<None, None, None>>, <<Some("0.7"), Some("64"), Some("0.9")>>}
\* presence_penalty, frequency_penalty and stop: none given, or one of them
Penalties == {<<None, None, None>>, <<Some("0.5"), None, None>>,
              <<None, Some("0.5"), None>>, <<None, None, Some(<<"END">>)>>}

---------------------------------------------------------------------------
(* utils.py *)

REASONING_MODELS == {"grok-4", "grok-3-mini", "grok-3-mini-fast"}

is_reasoning_model(model) == model \in REASONING_MODELS

ReasoningTimeout == 600
DefaultTimeout == 120

\* get_model_timeout without the reasoning case
get_model_timeout_always_default(model) == DefaultTimeout

\* utils.py:79-82
get_model_timeout(model) ==
    IF is_reasoning_model(model) THEN ReasoningTimeout ELSE DefaultTimeout

\* utils.py create_client: the timeout argument defaults to 120.0
ClientDefaultTimeout == 120
\* server.py chat_with_reasoning: create_client(timeout=3600.0)
ReasoningChatTimeout == 3600

NoClient == [state |-> "none", timeout |-> 0, use_state |-> FALSE]

\* the httpx.AsyncClient create_client returns
create_client(timeout, use_state) ==
    [state |-> "open", timeout |-> timeout, use_state |-> use_state]

\* await client.aclose()
aclose(c) == [c EXCEPT !.state = "closed"]

---------------------------------------------------------------------------
(* Messages, arguments, requests and outcomes *)

Message(role, content) == [role |-> role, content |-> content]

\* the keyword arguments of a tool invocation; a parameter the tool does not
\* take stays at the value it has here
NoArgs ==
    [op |-> "none", prompt |-> "", model |-> "", system_prompt |-> None,
     use_conversation_history |-> FALSE, temperature |-> None,
     max_tokens |-> None, top_p |-> None, presence_penalty |-> None,
     frequency_penalty |-> None, stop |-> None, reasoning_effort |-> None,
     return_citations |-> TRUE, country |-> None, rss_links |-> None,
     sources |-> None, response_id |-> None, include_reasoning |-> FALSE,
     image_paths |-> None, image_urls |-> None, detail |-> "auto",
     n |-> 1, response_format |-> "url"]

\* a request body (request_data); a key the handler does not set is None
NoFields ==
    [endpoint |-> "", model |-> "", messages |-> <<>>, temperature |-> None,
     max_tokens |-> None, top_p |-> None, reasoning_effort |-> None,
     presence_penalty |-> None, frequency_penalty |-> None, stop |-> None,
     search_parameters |-> None, previous_response_id |-> None,
     reasoning |-> None, prompt |-> None, n |-> None,
     response_format |-> None]

\* an HTTP response: its status, and of its JSON body the assistant text at
\* choices[0].message.content (None when the body lacks it) and the "output"
\* array of a stored response
HttpResponse(status, content, output) ==
    [status |-> status, content |-> content, output |-> output]

NoOutcome == [kind |-> "none", content |-> "", reasoning |-> None]

Returned(content, reasoning) ==
    [kind |-> "returned", content |-> content, reasoning |-> reasoning]

Raised(exception) == [kind |-> exception, content |-> "", reasoning |-> None]

\* the exceptions a handler raises
BadReasoningEffort == "ValueError: reasoning_effort must be 'low' or 'high'"
NotAReasoningModel == "ValueError: model isn't a reasoning model"
MissingApiKey == "ValueError: XAI_API_KEY not found"
HTTPStatusError == "httpx.HTTPStatusError"
KeyError == "KeyError"
UnsupportedImageType == "ValueError: Unsupported image type"
UnsupportedImageFormat == "ValueError: Unsupported image format"
FileNotFoundError == "FileNotFoundError"
IndexError == "IndexError"

\* the spec's InvalidArgument: a caller-supplied parameter fails a local
\* precondition (effort value, model name, image extension, missing file)
InvalidArgument ==
    {BadReasoningEffort, NotAReasoningModel, UnsupportedImageType,
     UnsupportedImageFormat, FileNotFoundError}

---------------------------------------------------------------------------
(* The skeleton every handler follows *)

\* The handler raises `exception` before it creates a client.
RaiseBeforeClient(s, exception) ==
    /\ pc' = [pc EXCEPT ![s] = "raised"]
    /\ outcome' = [outcome EXCEPT ![s] = Raised(exception)]
    /\ UNCHANGED <<request, response, client>>

\* client = create_client(timeout, use_state); response = await client.post(...):
\* create_client raises when get_api_key finds no key (utils.py:23-29, 54),
\* otherwise the request is sent and the handler suspends.
CreateClientAndSend(s, timeout, use_state, request_data) ==
    IF ~XAI_API_KEY
    THEN RaiseBeforeClient(s, MissingApiKey)
    ELSE /\ pc' = [pc EXCEPT ![s] = "awaiting"]
         /\ client' = [client EXCEPT ![s] = create_client(timeout, use_state)]
         /\ request' = [request EXCEPT ![s] = Some(request_data)]
         /\ UNCHANGED <<outcome, response>>

\* A handler is entered with arguments a and, before it builds its request,
\* opens and reads the image files in files.
EnterReading(s, a, files) ==
    /\ call' = [call EXCEPT ![s] = a]
    /\ entry_history' = [entry_history EXCEPT ![s] = conversation_history]
    /\ opened' = [opened EXCEPT ![s] = files]

\* A handler that reads no file is entered with arguments a.
Enter(s, a) == EnterReading(s, a, <<>>)

\* session s is suspended in the await of tool op
Awaiting(s, op) == pc[s] = "awaiting" /\ call[s].op = op

\* The response r arrives and the handler resumes.
Resume(s, r) ==
    /\ response' = [response EXCEPT ![s] = Some(r)]
    /\ UNCHANGED <<XAI_API_KEY, call, entry_history, request, opened>>

\* The handler ends with outcome o, its client left as c.
End(s, c, o) ==
    /\ pc' = [pc EXCEPT ![s] = IF o.kind = "returned" THEN "returned" ELSE "raised"]
    /\ client' = [client EXCEPT ![s] = c]
    /\ outcome' = [outcome EXCEPT ![s] = o]

\* the responses to a chat completion request: a non-2xx status, a 2xx body
\* without choices[0].message.content, a 2xx body with an assistant reply
CompletionResponses ==
    {HttpResponse("non-2xx", None, <<>>), HttpResponse("2xx", None, <<>>)}
    \cup {HttpResponse("2xx", Some(c), <<>>) : c \in Replies}

---------------------------------------------------------------------------
(* chat, server.py:176-280 *)

ChatArgs ==
    { [NoArgs EXCEPT !.op = "chat", !.prompt = p, !.model = m,
                     !.system_prompt = sp, !.use_conversation_history = h,
                     !.temperature = t[1], !.max_tokens = t[2], !.top_p = t[3],
                     !.presence_penalty = pen[1], !.frequency_penalty = pen[2],
                     !.stop = pen[3], !.reasoning_effort = re] :
        p \in Prompts, m \in Models, sp \in SystemPrompts, h \in BOOLEAN,
        t \in Samplings, pen \in Penalties, re \in ReasoningEfforts }

\* ChatEntryHistory without the reset of server.py:214-215
ChatEntryHistory_no_reset(a, history) == history

\* ChatEntryHistory with the user message appended on entry
ChatEntryHistory_early_append(a, history) ==
    IF ~a.use_conversation_history THEN <<>>
    ELSE history \o <<Message("user", a.prompt)>>

\* server.py:213-215: the history the rest of the call works on
ChatEntryHistory(a, history) ==
    IF ~a.use_conversation_history THEN <<>> ELSE history

\* ChatMessages without the len(conversation_history) == 0 test
ChatMessages_always_system(a, history) ==
    (IF TruthyStr(a.system_prompt)
        THEN <<Message("system", Val(a.system_prompt))>> ELSE <<>>)
    \o history
    \o <<Message("user", a.prompt)>>

\* server.py:217-230
ChatMessages(a, history) ==
    (IF TruthyStr(a.system_prompt) /\ Len(history) = 0
        THEN <<Message("system", Val(a.system_prompt))>> ELSE <<>>)
    \o history
    \o <<Message("user", a.prompt)>>

\* ChatRejectsEffort with "medium" among the accepted values
ChatRejectsEffort_medium(a) ==
    /\ is_reasoning_model(a.model)
    /\ TruthyStr(a.reasoning_effort) /\ a.model # "grok-4"
    /\ Val(a.reasoning_effort) \notin {"low", "medium", "high"}

\* server.py:246-250: the ValueError on reasoning_effort
ChatRejectsEffort(a) ==
    /\ is_reasoning_model(a.model)
    /\ TruthyStr(a.reasoning_effort) /\ a.model # "grok-4"
    /\ Val(a.reasoning_effort) \notin {"low", "high"}

\* server.py:232-259: request_data
ChatRequestData(a, history) ==
    LET is_reasoning == is_reasoning_model(a.model) IN
    [NoFields EXCEPT
        !.endpoint = "POST /chat/completions",
        !.model = a.model,
        !.messages = ChatMessages(a, history),
        !.temperature = a.temperature,
        !.max_tokens = a.max_tokens,
        !.top_p = a.top_p,
        !.reasoning_effort =
            IF is_reasoning /\ TruthyStr(a.reasoning_effort) /\ a.model # "grok-4"
            THEN a.reasoning_effort ELSE None,
        !.presence_penalty = IF ~is_reasoning THEN a.presence_penalty ELSE None,
        !.frequency_penalty = IF ~is_reasoning THEN a.frequency_penalty ELSE None,
        !.stop = IF ~is_reasoning THEN a.stop ELSE None]

\* ChatAppend with the turn put in a list of the call's own, not after the
\* shared history
ChatAppend_own_list(a, history, assistant_response) ==
    IF a.use_conversation_history
    THEN <<Message("user", a.prompt), Message("assistant", assistant_response)>>
    ELSE history

\* ChatAppend with only the user message appended (the assistant message
\* left to a later step)
ChatAppend_user_only(a, history, assistant_response) ==
    IF a.use_conversation_history
    THEN history \o <<Message("user", a.prompt)>>
    ELSE history

\* server.py:270-278: the turn appended after a successful response
ChatAppend(a, history, assistant_response) ==
    IF a.use_conversation_history
    THEN history \o <<Message("user", a.prompt),
                      Message("assistant", assistant_response)>>
    ELSE history

\* chat with arguments a, up to "await client.post" (server.py:213-263)
ChatInvoke(s, a) ==
    /\ Enter(s, a)
    /\ a.use_conversation_history => Len(conversation_history) < 2 * MaxTurns
    /\ conversation_history' = ChatEntryHistory(a, conversation_history)
    /\ IF ChatRejectsEffort(a)
       THEN RaiseBeforeClient(s, BadReasoningEffort)
       ELSE CreateClientAndSend(s, get_model_timeout(a.model), FALSE,
                                ChatRequestData(a, conversation_history'))

ChatCall(s) ==
    /\ pc[s] = "idle"
    /\ \E a \in ChatArgs : ChatInvoke(s, a)

\* chat from "await client.aclose()" to its return (server.py:266-280),
\* given the 2xx response r: a body without choices[0].message.content
\* raises KeyError after aclose; otherwise both messages are appended with
\* no await between them.
ChatAfterClose(s, r) ==
    IF r.content = None
    THEN End(s, aclose(client[s]), Raised(KeyError))
         /\ UNCHANGED conversation_history
    ELSE /\ End(s, aclose(client[s]), Returned(Val(r.content), None))
         /\ conversation_history' =
                ChatAppend(call[s], conversation_history, Val(r.content))

\* chat from the response to its return (server.py:264-280) when nothing
\* else runs while the client closes: raise_for_status raises with the
\* client open.
ChatResponse(s) ==
    /\ Awaiting(s, "chat")
    /\ \E r \in CompletionResponses :
        /\ Resume(s, r)
        /\ IF r.status # "2xx"
           THEN End(s, client[s], Raised(HTTPStatusError))
                /\ UNCHANGED conversation_history
           ELSE ChatAfterClose(s, r)

\* chat from the response to "await client.aclose()" (server.py:264-266),
\* where the handler suspends a second time
ChatReceive(s) ==
    /\ Awaiting(s, "chat")
    /\ \E r \in CompletionResponses :
        /\ Resume(s, r)
        /\ UNCHANGED conversation_history
        /\ IF r.status # "2xx"
           THEN End(s, client[s], Raised(HTTPStatusError))
           ELSE /\ pc' = [pc EXCEPT ![s] = "closing"]
                /\ UNCHANGED <<client, outcome>>

\* chat resumes after aclose (server.py:268-280)
ChatClosed(s) ==
    /\ pc[s] = "closing" /\ call[s].op = "chat"
    /\ ChatAfterClose(s, Val(response[s]))
    /\ UNCHANGED <<XAI_API_KEY, call, entry_history, request, response, opened>>

---------------------------------------------------------------------------
(* chat_with_reasoning, server.py:283-362 *)

ReasoningArgs ==
    { [NoArgs EXCEPT !.op = "chat_with_reasoning", !.prompt = p, !.model = m,
                     !.system_prompt = sp, !.reasoning_effort = re,
                     !.temperature = t[1], !.max_tokens = t[2], !.top_p = t[3]] :
        p \in Prompts, m \in Models, sp \in SystemPrompts,
        re \in ReasoningEfforts, t \in Samplings }

\* server.py:313, the models chat_with_reasoning accepts
REASONING_CHAT_MODELS ==
    {"grok-4", "grok-3-mini", "grok-3-mini-fast", "grok-4-1-fast-reasoning"}

\* ReasoningRejectsModel testing the model against every known model
ReasoningRejectsModel_any_model(a) == a.model \notin Models

\* server.py:313-314: the ValueError on the model
ReasoningRejectsModel(a) == a.model \notin REASONING_CHAT_MODELS

\* server.py:342-344: the ValueError on reasoning_effort
ReasoningRejectsEffort(a) ==
    /\ TruthyStr(a.reasoning_effort) /\ a.model # "grok-4"
    /\ Val(a.reasoning_effort) \notin {"low", "high"}

\* server.py:316-327, and live_search server.py:403-414
SingleTurnMessages(a) ==
    (IF TruthyStr(a.system_prompt)
        THEN <<Message("system", Val(a.system_prompt))>> ELSE <<>>)
    \o <<Message("user", a.prompt)>>

\* server.py:329-345: request_data
ReasoningRequestData(a) ==
    [NoFields EXCEPT
        !.endpoint = "POST /chat/completions",
        !.model = a.model,
        !.messages = SingleTurnMessages(a),
        !.temperature = a.temperature,
        !.max_tokens = a.max_tokens,
        !.top_p = a.top_p,
        !.reasoning_effort =
            IF TruthyStr(a.reasoning_effort) /\ a.model # "grok-4"
            THEN a.reasoning_effort ELSE None]

\* chat_with_reasoning up to "await client.post" (server.py:313-348)
ReasoningCall(s) ==
    /\ pc[s] = "idle"
    /\ \E a \in ReasoningArgs :
        /\ Enter(s, a)
        /\ UNCHANGED conversation_history
        /\ IF ReasoningRejectsModel(a)
           THEN RaiseBeforeClient(s, NotAReasoningModel)
           ELSE IF ReasoningRejectsEffort(a)
           THEN RaiseBeforeClient(s, BadReasoningEffort)
           ELSE CreateClientAndSend(s, ReasoningChatTimeout, FALSE,
                                    ReasoningRequestData(a))

\* chat_with_reasoning from the response to its return (server.py:349-362):
\* data["choices"][0]["message"] raises KeyError after aclose; a message
\* without content yields "" (message.get("content", "")).  Here a 2xx body
\* either lacks the message or holds a message with content.
ReasoningResponse(s) ==
    /\ Awaiting(s, "chat_with_reasoning")
    /\ \E r \in CompletionResponses :
        /\ Resume(s, r)
        /\ UNCHANGED conversation_history
        /\ IF r.status # "2xx"
           THEN End(s, client[s], Raised(HTTPStatusError))
           ELSE IF r.content = None
           THEN End(s, aclose(client[s]), Raised(KeyError))
           ELSE End(s, aclose(client[s]), Returned(Val(r.content), None))

---------------------------------------------------------------------------
(* live_search, server.py:365-476 *)

\* a search source descriptor; a key it lacks is None
Source(type, country, links) ==
    [type |-> type, country |-> country, links |-> links]

Countries == {None, Some(""), Some("us")}
RssLinks == {None, Some(<<>>), Some(<<"link1">>), Some(<<"link1", "link2">>)}
SourceLists == {None, Some(<<>>), Some(<<Source("news", Some("de"), None)>>),
                Some(<<Source("x", None, None),
                       Source("rss", None, Some(<<"feed">>))>>)}
SearchModels == {"grok-4", "grok-4-1-fast-non-reasoning"}

\* mode, from_date, to_date and max_search_results keep their defaults
SearchArgs ==
    { [NoArgs EXCEPT !.op = "live_search", !.prompt = p, !.model = m,
                     !.system_prompt = sp, !.return_citations = rc,
                     !.country = c, !.rss_links = rl, !.sources = src] :
        p \in Prompts, m \in SearchModels, sp \in {None, Some("sys")},
        rc \in BOOLEAN, c \in Countries, rl \in RssLinks, src \in SourceLists }

\* server.py:446-448: one rss descriptor per link
RssSources(links) ==
    [i \in 1..Len(links) |-> Source("rss", None, Some(<<links[i]>>))]

\* server.py:431-448: default_sources
DefaultSources(a) ==
    (IF TruthyStr(a.country)
        THEN <<Source("web", a.country, None), Source("news", a.country, None),
               Source("x", None, None)>>
        ELSE <<Source("web", None, None), Source("news", None, None),
               Source("x", None, None)>>)
    \o (IF TruthyList(a.rss_links) THEN RssSources(Val(a.rss_links)) ELSE <<>>)

\* SearchSources with the web, news and x descriptors only for a country
SearchSources_rss_only(a) ==
    IF TruthyList(a.sources) THEN a.sources
    ELSE IF TruthyStr(a.country) THEN Some(DefaultSources(a))
    ELSE IF TruthyList(a.rss_links) THEN Some(RssSources(Val(a.rss_links)))
    ELSE None

\* server.py:428-450: search_params["sources"], None when the key is not set
SearchSources(a) ==
    IF TruthyList(a.sources) THEN a.sources
    ELSE IF TruthyStr(a.country) \/ TruthyList(a.rss_links)
    THEN Some(DefaultSources(a))
    ELSE None

\* server.py:416-426, 450: search_params
SearchParameters(a) ==
    [mode |-> "on", return_citations |-> a.return_citations,
     from_date |-> None, to_date |-> None, max_search_results |-> None,
     sources |-> SearchSources(a)]

\* server.py:452-456: request_data
SearchRequestData(a) ==
    [NoFields EXCEPT
        !.endpoint = "POST /chat/completions",
        !.model = a.model,
        !.messages = SingleTurnMessages(a),
        !.search_parameters = Some(SearchParameters(a))]

\* live_search up to "await client.post" (server.py:403-459)
SearchCall(s) ==
    /\ pc[s] = "idle"
    /\ \E a \in SearchArgs :
        /\ Enter(s, a)
        /\ UNCHANGED conversation_history
        /\ CreateClientAndSend(s, ClientDefaultTimeout, FALSE, SearchRequestData(a))

\* live_search from the response to its return (server.py:460-476): the
\* client is closed last, so a body without choices[0].message.content
\* raises KeyError with the client open.
SearchResponse(s) ==
    /\ Awaiting(s, "live_search")
    /\ \E r \in CompletionResponses :
        /\ Resume(s, r)
        /\ UNCHANGED conversation_history
        /\ IF r.status # "2xx"
           THEN End(s, client[s], Raised(HTTPStatusError))
           ELSE IF r.content = None
           THEN End(s, client[s], Raised(KeyError))
           ELSE End(s, aclose(client[s]), Returned(Val(r.content), None))

---------------------------------------------------------------------------
(* stateful_chat and retrieve_stateful_response, server.py:481-643 *)

\* a content or summary part of an output item
Part(type, text) == [type |-> type, text |-> text]

\* an item of the "output" array; a key it lacks reads as the default of
\* item.get
MessageItem(role, content) ==
    [type |-> "message", role |-> role, content |-> content, summary |-> <<>>]
ReasoningItem(summary) ==
    [type |-> "reasoning", role |-> "", content |-> <<>>, summary |-> summary]

OutputItems ==
    { MessageItem("assistant", <<Part("output_text", "t1")>>),
      MessageItem("assistant", <<Part("refusal", "no"), Part("output_text", "t2"),
                                 Part("output_text", "t3")>>),
      MessageItem("assistant", <<Part("refusal", "no")>>),
      MessageItem("system", <<Part("output_text", "t4")>>),
      ReasoningItem(<<Part("summary_text", "r1")>>),
      ReasoningItem(<<Part("encrypted", "x"), Part("summary_text", "r2"),
                      Part("summary_text", "r3")>>),
      ReasoningItem(<<>>) }

\* the output arrays of at most n items
OutputArrays(n) == UNION {[1..k -> OutputItems] : k \in 0..n}

\* the responses of the stored-response endpoints
StoredResponses ==
    {HttpResponse("non-2xx", None, <<>>)}
    \cup {HttpResponse("2xx", None, o) : o \in OutputArrays(MaxItems)}

\* the inner loops of server.py:563-566 and 568-571: the text of the first
\* part of the given type, None when there is none
RECURSIVE FirstText(_, _)
FirstText(parts, type) ==
    IF parts = <<>> THEN None
    ELSE IF Head(parts).type = type THEN Some(Head(parts).text)
    ELSE FirstText(Tail(parts), type)

\* the loop of server.py:561-571 (and 619-629) from the values content and
\* reasoning have before it reads `output`
RECURSIVE ParseLoop(_, _, _)
ParseLoop(output, content, reasoning) ==
    IF output = <<>> THEN [content |-> content, reasoning |-> reasoning]
    ELSE LET item == Head(output) IN
         IF item.type = "message" /\ item.role = "assistant"
         THEN LET t == FirstText(item.content, "output_text") IN
              ParseLoop(Tail(output), IF t # None THEN Val(t) ELSE content,
                        reasoning)
         ELSE IF item.type = "reasoning"
         THEN LET t == FirstText(item.summary, "summary_text") IN
              ParseLoop(Tail(output), content, IF t # None THEN t ELSE reasoning)
         ELSE ParseLoop(Tail(output), content, reasoning)

\* server.py:557-571 and 614-629
ParseOutput(output) == ParseLoop(output, "", None)

StatefulArgs ==
    { [NoArgs EXCEPT !.op = "stateful_chat", !.prompt = p, !.model = m,
                     !.system_prompt = sp, !.response_id = rid,
                     !.include_reasoning = ir,
                     !.temperature = t[1], !.max_tokens = t[2]] :
        p \in {"p1"}, m \in {"grok-4", "grok-4-1-fast-non-reasoning"},
        sp \in {None, Some("sys")}, rid \in {None, Some("resp_1")},
        ir \in BOOLEAN, t \in Samplings }

\* server.py:513-525: input_messages
StatefulInput(a) ==
    (IF TruthyStr(a.system_prompt) /\ ~TruthyStr(a.response_id)
        THEN <<Message("system", Val(a.system_prompt))>> ELSE <<>>)
    \o <<Message("user", a.prompt)>>

\* server.py:527-545: request_data; "input" is the messages field,
\* max_output_tokens the max_tokens field
StatefulRequestData(a) ==
    [NoFields EXCEPT
        !.endpoint = "POST /v1/responses",
        !.model = a.model,
        !.messages = StatefulInput(a),
        !.previous_response_id =
            IF TruthyStr(a.response_id) THEN a.response_id ELSE None,
        !.temperature = a.temperature,
        !.max_tokens = a.max_tokens,
        !.reasoning =
            IF a.include_reasoning THEN Some(<<"encrypted_content">>) ELSE None]

\* stateful_chat up to "await client.post" (server.py:513-552)
StatefulCall(s) ==
    /\ pc[s] = "idle"
    /\ \E a \in StatefulArgs :
        /\ Enter(s, a)
        /\ UNCHANGED conversation_history
        /\ CreateClientAndSend(s, get_model_timeout(a.model), TRUE,
                               StatefulRequestData(a))

\* stateful_chat from the response to its return (server.py:553-588); the
\* result has a "reasoning" key only for a non-empty summary
StatefulResponse(s) ==
    /\ Awaiting(s, "stateful_chat")
    /\ \E r \in StoredResponses :
        /\ Resume(s, r)
        /\ UNCHANGED conversation_history
        /\ IF r.status # "2xx"
           THEN End(s, client[s], Raised(HTTPStatusError))
           ELSE LET parsed == ParseOutput(r.output) IN
                End(s, aclose(client[s]),
                    Returned(parsed.content,
                             IF TruthyStr(parsed.reasoning)
                             THEN parsed.reasoning ELSE None))

RetrieveArgs ==
    { [NoArgs EXCEPT !.op = "retrieve_stateful_response", !.response_id = rid] :
        rid \in {Some("resp_1"), Some("resp_2")} }

\* retrieve_stateful_response up to "await client.get" (server.py:608-610)
RetrieveCall(s) ==
    /\ pc[s] = "idle"
    /\ \E a \in RetrieveArgs :
        /\ Enter(s, a)
        /\ UNCHANGED conversation_history
        /\ CreateClientAndSend(s, ClientDefaultTimeout, TRUE,
               [NoFields EXCEPT !.endpoint = "GET /v1/responses/{response_id}",
                                !.previous_response_id = a.response_id])

\* retrieve_stateful_response from the response to its return
\* (server.py:611-643)
RetrieveResponse(s) ==
    /\ Awaiting(s, "retrieve_stateful_response")
    /\ \E r \in StoredResponses :
        /\ Resume(s, r)
        /\ UNCHANGED conversation_history
        /\ IF r.status # "2xx"
           THEN End(s, client[s], Raised(HTTPStatusError))
           ELSE LET parsed == ParseOutput(r.output) IN
                End(s, aclose(client[s]),
                    Returned(parsed.content, parsed.reasoning))

---------------------------------------------------------------------------
(* chat_with_vision, server.py:107-173, and encode_image_to_base64,        *)
(* utils.py:32-44                                                          *)

\* the longest image_paths and image_urls lists
MaxPaths == 2

\* A local path: its stem and what Path(path).suffix gives, a string (here a
\* sequence of characters) that begins with the last "." of the name.
ImagePath(stem, suffix) == [stem |-> stem, suffix |-> suffix]

ImagePaths ==
    {ImagePath("cat", <<".", "p", "n", "g">>),
     ImagePath("dog", <<".", "J", "P", "G">>),
     ImagePath("scan", <<".", "b", "m", "p">>),
     ImagePath("anim", <<".", "g", "i", "f">>),
     ImagePath("gone", <<".", "j", "p", "e", "g">>)}

\* the paths at which Path.exists() finds a file
ExistingFiles == {p \in ImagePaths : p.stem # "gone"}

\* str.lower(), on the letters that occur in ImagePaths
LowerChar(c) ==
    CASE c = "J" -> "j" [] c = "P" -> "p" [] c = "G" -> "g" [] OTHER -> c

lower(str) == [i \in 1..Len(str) |-> LowerChar(str[i])]

\* str.replace('.', '')
strip_dots(str) == SelectSeq(str, LAMBDA c : c # ".")

\* utils.py:36
valid_extensions ==
    {<<".", "j", "p", "g">>, <<".", "j", "p", "e", "g">>,
     <<".", "p", "n", "g">>, <<".", "g", "i", "f">>,
     <<".", "w", "e", "b", "p">>}

\* the bytes of the file at path, and base64.b64encode(...).decode("utf-8")
FileBytes(path) == <<"bytes", path.stem>>
b64encode(bytes) == <<"base64", bytes>>

\* utils.py:32-44: the exception raised, or the encoded file; the file is
\* opened and read only when neither check raises.
encode_image_to_base64(path) ==
    IF path \notin ExistingFiles
    THEN [error |-> Some(FileNotFoundError), data |-> None]
    ELSE IF lower(path.suffix) \notin valid_extensions
    THEN [error |-> Some(UnsupportedImageFormat), data |-> None]
    ELSE [error |-> None, data |-> Some(b64encode(FileBytes(path)))]

\* the parts of a message's content list
ImagePart(url, detail) ==
    [type |-> "image_url", image_url |-> [url |-> url, detail |-> detail]]
TextPart(text) == [type |-> "text", text |-> text]

\* f"data:image/{ext};base64,{base64_img}"
DataUrl(ext, base64_img) == <<"data:image/", ext, ";base64,", base64_img>>

\* VisionExtensions with gif accepted
VisionExtensions_with_gif ==
    {<<"j", "p", "g">>, <<"j", "p", "e", "g">>, <<"p", "n", "g">>,
     <<"g", "i", "f">>}

\* server.py:134
VisionExtensions ==
    {<<"j", "p", "g">>, <<"j", "p", "e", "g">>, <<"p", "n", "g">>}

\* server.py:132-143, the loop over image_paths from the path at the head of
\* paths on: items is content_items so far and files the paths opened so
\* far.  It ends at the first path that raises.
RECURSIVE EncodeImages(_, _, _, _)
EncodeImages(paths, detail, items, files) ==
    IF paths = <<>>
    THEN [error |-> None, items |-> items, files |-> files]
    ELSE LET path == Head(paths)
             ext == strip_dots(lower(path.suffix))
             encoded == encode_image_to_base64(path)
         IN  IF ext \notin VisionExtensions
             THEN [error |-> Some(UnsupportedImageType),
                   items |-> items, files |-> files]
             ELSE IF encoded.error # None
             THEN [error |-> encoded.error, items |-> items, files |-> files]
             ELSE EncodeImages(Tail(paths), detail,
                      Append(items,
                             ImagePart(DataUrl(ext, Val(encoded.data)), detail)),
                      Append(files, path))

\* server.py:131-143
LocalImages(a) ==
    IF TruthyList(a.image_paths)
    THEN EncodeImages(Val(a.image_paths), a.detail, <<>>, <<>>)
    ELSE [error |-> None, items |-> <<>>, files |-> <<>>]

\* server.py:145-154
RemoteImages(a) ==
    IF TruthyList(a.image_urls)
    THEN [i \in 1..Len(Val(a.image_urls)) |->
             ImagePart(Val(a.image_urls)[i], a.detail)]
    ELSE <<>>

\* server.py:156-160: an empty prompt adds no text part
PromptPart(a) == IF a.prompt # "" THEN <<TextPart(a.prompt)>> ELSE <<>>

\* server.py:162-167, given the content parts of the local images
VisionRequestData(a, local_items) ==
    [NoFields EXCEPT
        !.endpoint = "POST /chat/completions",
        !.model = a.model,
        !.messages =
            <<Message("user", local_items \o RemoteImages(a) \o PromptPart(a))>>]

VisionPrompts == {"", "p1"}
VisionModels == {"grok-4-1-fast-non-reasoning", "grok-4"}
ImageUrls == {"https://x/1.png", "https://x/2.png"}
Details == {"auto", "high"}

\* the lists of at most n elements of S
ListsUpTo(S, n) == UNION {[1..k -> S] : k \in 0..n}

VisionArgs ==
    { [NoArgs EXCEPT !.op = "chat_with_vision", !.prompt = p, !.model = m,
                     !.image_paths = ips, !.image_urls = ius, !.detail = d] :
        p \in VisionPrompts, m \in VisionModels, d \in Details,
        ips \in {None} \cup {Some(l) : l \in ListsUpTo(ImagePaths, MaxPaths)},
        ius \in {None} \cup {Some(l) : l \in ListsUpTo(ImageUrls, MaxPaths)} }

\* chat_with_vision up to "await client.post" (server.py:128-169): the client
\* is created with the default timeout, after the images are encoded.
VisionCall(s) ==
    /\ pc[s] = "idle"
    /\ \E a \in VisionArgs :
        /\ EnterReading(s, a, LocalImages(a).files)
        /\ UNCHANGED conversation_history
        /\ IF LocalImages(a).error # None
           THEN RaiseBeforeClient(s, Val(LocalImages(a).error))
           ELSE CreateClientAndSend(s, ClientDefaultTimeout, FALSE,
                                    VisionRequestData(a, LocalImages(a).items))

\* chat_with_vision from the response to its return (server.py:170-173)
VisionResponse(s) ==
    /\ Awaiting(s, "chat_with_vision")
    /\ \E r \in CompletionResponses :
        /\ Resume(s, r)
        /\ UNCHANGED conversation_history
        /\ IF r.status # "2xx"
           THEN End(s, client[s], Raised(HTTPStatusError))
           ELSE IF r.content = None
           THEN End(s, aclose(client[s]), Raised(KeyError))
           ELSE End(s, aclose(client[s]), Returned(Val(r.content), None))

---------------------------------------------------------------------------
(* generate_image, server.py:63-104 *)

ImageArgs ==
    { [NoArgs EXCEPT !.op = "generate_image", !.prompt = p, !.n = n,
                     !.model = "grok-2-image-1212"] :
        p \in Prompts, n \in 1..MaxPaths }

\* server.py:86-91
ImageRequestData(a) ==
    [NoFields EXCEPT
        !.endpoint = "POST /images/generations",
        !.model = a.model,
        !.prompt = Some(a.prompt),
        !.n = Some(a.n),
        !.response_format = Some(a.response_format)]

\* an element of the "data" array of the response body
GeneratedImages ==
    {[url |-> "https://img/1", revised_prompt |-> None],
     [url |-> "https://img/2", revised_prompt |-> Some("revised")]}

\* the responses to an image generation request; output is
\* data.get("data", []), empty also when the body has no "data"
ImageResponses ==
    {HttpResponse("non-2xx", None, <<>>)}
    \cup {HttpResponse("2xx", None, d) : d \in ListsUpTo(GeneratedImages, MaxPaths)}

\* images[0].get("revised_prompt", "")
RevisedPrompt(images) ==
    IF images[1].revised_prompt = None THEN "" ELSE Val(images[1].revised_prompt)

\* generate_image up to "await client.post" (server.py:85-92): the client is
\* created first.
ImageCall(s) ==
    /\ pc[s] = "idle"
    /\ \E a \in ImageArgs :
        /\ Enter(s, a)
        /\ UNCHANGED conversation_history
        /\ CreateClientAndSend(s, ClientDefaultTimeout, FALSE, ImageRequestData(a))

\* generate_image from the response to its return (server.py:93-104):
\* images[0] of an empty list raises IndexError after aclose.
ImageResponse(s) ==
    /\ Awaiting(s, "generate_image")
    /\ \E r \in ImageResponses :
        /\ Resume(s, r)
        /\ UNCHANGED conversation_history
        /\ IF r.status # "2xx"
           THEN End(s, client[s], Raised(HTTPStatusError))
           ELSE IF r.output = <<>>
           THEN End(s, aclose(client[s]), Raised(IndexError))
           ELSE End(s, aclose(client[s]),
                    Returned([images |-> r.output,
                              revised_prompt |-> RevisedPrompt(r.output)], None))

---------------------------------------------------------------------------
(* list_models, server.py:28-60, and delete_stateful_response,             *)
(* server.py:646-674                                                       *)

\* an element of the "data" array of GET /models; an absent key is None
ListedModels ==
    {[id |-> Some("grok-4"), created |-> Some(1), owned_by |-> Some("xai")],
     [id |-> None, created |-> None, owned_by |-> None],
     [id |-> Some("grok-3-mini"), created |-> Some(0), owned_by |-> None]}

\* server.py:46-56: the line of one model; a created timestamp that is
\* absent or 0 gives an empty date
ModelLine(model) ==
    [id |-> IF model.id = None THEN "" ELSE Val(model.id),
     owner |-> IF model.owned_by = None THEN "" ELSE Val(model.owned_by),
     created |-> IF model.created = None \/ model.created = Some(0)
                 THEN "" ELSE <<"%Y-%m-%d", Val(model.created)>>]

\* output is data.get("data", [])
ModelsResponses ==
    {HttpResponse("non-2xx", None, <<>>)}
    \cup {HttpResponse("2xx", None, d) : d \in ListsUpTo(ListedModels, MaxPaths)}

\* list_models up to "await client.get" (server.py:39-40)
ModelsCall(s) ==
    /\ pc[s] = "idle"
    /\ Enter(s, [NoArgs EXCEPT !.op = "list_models"])
    /\ UNCHANGED conversation_history
    /\ CreateClientAndSend(s, ClientDefaultTimeout, FALSE,
                           [NoFields EXCEPT !.endpoint = "GET /models"])

\* list_models from the response to its return (server.py:41-60)
ModelsResponse(s) ==
    /\ Awaiting(s, "list_models")
    /\ \E r \in ModelsResponses :
        /\ Resume(s, r)
        /\ UNCHANGED conversation_history
        /\ IF r.status # "2xx"
           THEN End(s, client[s], Raised(HTTPStatusError))
           ELSE End(s, aclose(client[s]),
                    Returned([i \in 1..Len(r.output) |-> ModelLine(r.output[i])],
                             None))

DeleteArgs ==
    { [NoArgs EXCEPT !.op = "delete_stateful_response",
                     !.response_id = Some(id)] : id \in {"r1", "r2"} }

\* the responses to a delete: content is data.get("id") and output is
\* data.get("deleted", False)
DeleteResponses ==
    {HttpResponse("non-2xx", None, FALSE)}
    \cup {HttpResponse("2xx", id, d) :
            id \in {None, Some("r1"), Some("r2")}, d \in BOOLEAN}

\* delete_stateful_response up to "await client.delete" (server.py:662-664)
DeleteCall(s) ==
    /\ pc[s] = "idle"
    /\ \E a \in DeleteArgs :
        /\ Enter(s, a)
        /\ UNCHANGED conversation_history
        /\ CreateClientAndSend(s, ClientDefaultTimeout, TRUE,
               [NoFields EXCEPT !.endpoint = "DELETE /v1/responses/{response_id}",
                                !.previous_response_id = a.response_id])

\* delete_stateful_response from the response to its return
\* (server.py:665-674)
DeleteResponse(s) ==
    /\ Awaiting(s, "delete_stateful_response")
    /\ \E r \in DeleteResponses :
        /\ Resume(s, r)
        /\ UNCHANGED conversation_history
        /\ IF r.status # "2xx"
           THEN End(s, client[s], Raised(HTTPStatusError))
           ELSE End(s, aclose(client[s]),
                    Returned([response_id |-> r.content, deleted |-> r.output],
                             None))

---------------------------------------------------------------------------
(* The server *)

\* The invocation of session s is over: its frame is gone.
Finish(s) ==
    /\ pc[s] \in {"returned", "raised"}
    /\ pc' = [pc EXCEPT ![s] = "idle"]
    /\ call' = [call EXCEPT ![s] = NoArgs]
    /\ entry_history' = [entry_history EXCEPT ![s] = <<>>]
    /\ request' = [request EXCEPT ![s] = None]
    /\ response' = [response EXCEPT ![s] = None]
    /\ client' = [client EXCEPT ![s] = NoClient]
    /\ opened' = [opened EXCEPT ![s] = <<>>]
    /\ outcome' = [outcome EXCEPT ![s] = NoOutcome]
    /\ UNCHANGED <<XAI_API_KEY, conversation_history>>

Init ==
    /\ XAI_API_KEY \in BOOLEAN
    /\ conversation_history = <<>>
    /\ pc = [s \in Sessions |-> "idle"]
    /\ call = [s \in Sessions |-> NoArgs]
    /\ entry_history = [s \in Sessions |-> <<>>]
    /\ request = [s \in Sessions |-> None]
    /\ response = [s \in Sessions |-> None]
    /\ client = [s \in Sessions |-> NoClient]
    /\ opened = [s \in Sessions |-> <<>>]
    /\ outcome = [s \in Sessions |-> NoOutcome]

\* no tool invocation is in progress
NoCallInFlight == \A t \in Sessions : pc[t] = "idle"

\* Tool invocations one after another: an invocation begins when none is in
\* progress.
Next ==
    \E s \in Sessions :
        \/ NoCallInFlight /\ UNCHANGED XAI_API_KEY /\ ChatCall(s)
        \/ NoCallInFlight /\ UNCHANGED XAI_API_KEY /\ ReasoningCall(s)
        \/ ChatResponse(s)
        \/ ReasoningResponse(s)
        \/ Finish(s)

Spec == Init /\ [][Next]_vars

\* The handlers that neither read nor write conversation_history, one
\* invocation after another.
NextTools ==
    \E s \in Sessions :
        \/ NoCallInFlight /\ UNCHANGED XAI_API_KEY /\ SearchCall(s)
        \/ NoCallInFlight /\ UNCHANGED XAI_API_KEY /\ StatefulCall(s)
        \/ NoCallInFlight /\ UNCHANGED XAI_API_KEY /\ RetrieveCall(s)
        \/ SearchResponse(s)
        \/ StatefulResponse(s)
        \/ RetrieveResponse(s)
        \/ Finish(s)

SpecTools == Init /\ [][NextTools]_vars

\* chat invoked with use_conversation_history=False
ChatCallFresh(s) ==
    /\ pc[s] = "idle"
    /\ \E a \in {b \in ChatArgs : ~b.use_conversation_history} : ChatInvoke(s, a)

\* Every handler, one invocation after another, chat without retained
\* history (conversation_history stays empty).
NextServer ==
    \E s \in Sessions :
        \/ NoCallInFlight /\ UNCHANGED XAI_API_KEY /\ ChatCallFresh(s)
        \/ NoCallInFlight /\ UNCHANGED XAI_API_KEY /\ ReasoningCall(s)
        \/ NoCallInFlight /\ UNCHANGED XAI_API_KEY /\ VisionCall(s)
        \/ NoCallInFlight /\ UNCHANGED XAI_API_KEY /\ SearchCall(s)
        \/ NoCallInFlight /\ UNCHANGED XAI_API_KEY /\ StatefulCall(s)
        \/ NoCallInFlight /\ UNCHANGED XAI_API_KEY /\ RetrieveCall(s)
        \/ NoCallInFlight /\ UNCHANGED XAI_API_KEY /\ ImageCall(s)
        \/ NoCallInFlight /\ UNCHANGED XAI_API_KEY /\ ModelsCall(s)
        \/ NoCallInFlight /\ UNCHANGED XAI_API_KEY /\ DeleteCall(s)
        \/ ChatResponse(s)
        \/ ReasoningResponse(s)
        \/ VisionResponse(s)
        \/ ImageResponse(s)
        \/ ModelsResponse(s)
        \/ DeleteResponse(s)
        \/ SearchResponse(s)
        \/ StatefulResponse(s)
        \/ RetrieveResponse(s)
        \/ Finish(s)

SpecServer == Init /\ [][NextServer]_vars

\* the prompt by which the turns of session s are recognised
SessionPrompt(s) == IF s = "s1" THEN "p1" ELSE "p2"

\* the chat invocations of session s when sessions overlap
ConcurrentChatArgs(s) ==
    { [NoArgs EXCEPT !.op = "chat", !.prompt = SessionPrompt(s),
                     !.model = "grok-3-mini", !.system_prompt = Some("sys"),
                     !.use_conversation_history = h, !.reasoning_effort = re] :
        h \in BOOLEAN, re \in {None, Some("medium")} }

ChatCallConcurrent(s) ==
    /\ pc[s] = "idle"
    /\ \E a \in ConcurrentChatArgs(s) : ChatInvoke(s, a)

\* chat invocations of the sessions interleaved: while one invocation awaits
\* its response (server.py:263) or the closing of its client (266) the event
\* loop runs another.
NextConcurrent ==
    \E s \in Sessions :
        \/ UNCHANGED XAI_API_KEY /\ ChatCallConcurrent(s)
        \/ ChatReceive(s)
        \/ ChatClosed(s)
        \/ Finish(s)

SpecConcurrent == Init /\ [][NextConcurrent]_vars

---------------------------------------------------------------------------
(* Properties of chat and chat_with_reasoning, checked under Spec *)

\* session s is inside an invocation of tool op
In(s, op) == pc[s] # "idle" /\ call[s].op = op

\* the invocation of session s has issued a network request
Sent(s) == request[s] # None

\* the messages chat is claimed to send without history
FreshMessages(a) ==
    IF TruthyStr(a.system_prompt)
    THEN <<Message("system", Val(a.system_prompt)), Message("user", a.prompt)>>
    ELSE <<Message("user", a.prompt)>>

\* C2, as stated: a chat call with use_conversation_history=false sends
\* exactly [user] (or [system, user]) and the conversation is the same
\* before and after the call.
C2_AsStated ==
    \A s \in Sessions :
        In(s, "chat") /\ ~call[s].use_conversation_history =>
            /\ Sent(s) => Val(request[s]).messages = FreshMessages(call[s])
            /\ conversation_history = entry_history[s]

\* C2, amended: a chat call with use_conversation_history=false sends
\* exactly [user] (or [system, user] when the system prompt is non-empty),
\* and from its entry on the conversation is empty, whatever it held before.
C2_NoHistoryCall ==
    \A s \in Sessions :
        In(s, "chat") /\ ~call[s].use_conversation_history =>
            /\ Sent(s) => Val(request[s]).messages = FreshMessages(call[s])
            /\ conversation_history = <<>>

C2_Witness ==
    \E s \in Sessions :
        /\ In(s, "chat") /\ ~call[s].use_conversation_history
        /\ pc[s] = "returned"
        /\ Len(entry_history[s]) = 2 * MaxTurns
        /\ call[s].system_prompt = Some("sys")
        /\ Len(Val(request[s]).messages) = 2

\* C3: a chat call with use_conversation_history=true sends the
\* conversation as it was on entry followed by the call's user message,
\* preceded by the system message only if that conversation was empty; a
\* successful call leaves the conversation extended by its user message and
\* the assistant response.  So after one successful call from the empty
\* conversation the second call sends
\* [first user, first assistant response, second user].
C3_HistoryCalls ==
    \A s \in Sessions :
        In(s, "chat") /\ call[s].use_conversation_history =>
            LET h == entry_history[s]
                u == Message("user", call[s].prompt)
            IN  /\ Sent(s) =>
                    LET m == Val(request[s]).messages IN
                    /\ m = (IF h = <<>> /\ TruthyStr(call[s].system_prompt)
                            THEN <<Message("system", Val(call[s].system_prompt))>>
                            ELSE <<>>) \o h \o <<u>>
                    /\ \A i \in 1..Len(m) : m[i].role = "system" => h = <<>>
                    /\ Len(h) = 2 =>
                          /\ m = <<h[1], h[2], u>>
                          /\ h[1].role = "user" /\ h[2].role = "assistant"
                /\ pc[s] = "returned" =>
                    conversation_history =
                        h \o <<u, Message("assistant", outcome[s].content)>>

C3_Witness ==
    \E s \in Sessions :
        /\ In(s, "chat") /\ call[s].use_conversation_history
        /\ pc[s] = "returned"
        /\ call[s].system_prompt = Some("sys")
        /\ entry_history[s] = <<Message("user", "p1"), Message("assistant", "a2")>>
        /\ Val(request[s]).messages =
              <<Message("user", "p1"), Message("assistant", "a2"),
                Message("user", "p2")>>

\* the invocation of session s was rejected with InvalidArgument before any
\* client or request existed
RejectedLocally(s) ==
    /\ pc[s] = "raised" /\ outcome[s].kind \in InvalidArgument
    /\ ~Sent(s) /\ client[s] = NoClient

\* C4, as stated: a reasoning_effort outside {low, high} is rejected with
\* InvalidArgument and no request, in chat for grok-4, grok-3-mini and
\* grok-3-mini-fast and in chat_with_reasoning for every allow-listed
\* model; grok-4 is rejected whenever a reasoning_effort is supplied.
\* (Stated for a server that has its API key and a non-empty value.)
C4_AsStated ==
    \A s \in Sessions :
        LET a == call[s]
            covered ==
                \/ In(s, "chat") /\
                      a.model \in {"grok-4", "grok-3-mini", "grok-3-mini-fast"}
                \/ In(s, "chat_with_reasoning") /\
                      a.model \in REASONING_CHAT_MODELS
        IN  XAI_API_KEY /\ covered /\ a.reasoning_effort \notin {None, Some("")} =>
              /\ Val(a.reasoning_effort) \notin {"low", "high"}
                    => RejectedLocally(s)
              /\ a.model = "grok-4" => RejectedLocally(s)

\* C4, amended: a non-empty reasoning_effort outside {low, high} is rejected
\* with InvalidArgument and no request, in chat for grok-3-mini and
\* grok-3-mini-fast and in chat_with_reasoning for every allow-listed model
\* but grok-4; for grok-4 a supplied reasoning_effort is never rejected: it
\* is left out of the request.
C4_EffortRejected ==
    \A s \in Sessions :
        LET a == call[s]
            covered ==
                \/ In(s, "chat") /\
                      a.model \in {"grok-4", "grok-3-mini", "grok-3-mini-fast"}
                \/ In(s, "chat_with_reasoning") /\
                      a.model \in REASONING_CHAT_MODELS
        IN  covered /\ a.reasoning_effort \notin {None, Some("")} =>
              /\ a.model # "grok-4" /\ Val(a.reasoning_effort) \notin {"low", "high"}
                    => /\ RejectedLocally(s)
                       /\ outcome[s].kind = BadReasoningEffort
              /\ a.model = "grok-4"
                    => /\ outcome[s].kind # BadReasoningEffort
                       /\ Sent(s) => Val(request[s]).reasoning_effort = None

C4_Witness ==
    \E s, t \in Sessions :
        /\ In(s, "chat") /\ call[s].model = "grok-3-mini-fast"
        /\ call[s].reasoning_effort = Some("medium")
        /\ call[s].use_conversation_history
        /\ XAI_API_KEY /\ conversation_history # <<>>
        /\ RejectedLocally(s)

\* C5: chat_with_reasoning with a model outside its allow-list raises
\* InvalidArgument; no request is issued and no client is created.
C5_ModelRejected ==
    \A s \in Sessions :
        In(s, "chat_with_reasoning") /\
        call[s].model \notin {"grok-4", "grok-3-mini", "grok-3-mini-fast",
                              "grok-4-1-fast-reasoning"} =>
            /\ RejectedLocally(s)
            /\ outcome[s].kind = NotAReasoningModel

C5_Witness ==
    \E s \in Sessions :
        /\ In(s, "chat_with_reasoning")
        /\ call[s].model = "grok-4-1-fast-non-reasoning"
        /\ call[s].reasoning_effort = Some("low")
        /\ XAI_API_KEY
        /\ RejectedLocally(s)

\* C8: a model is classified reasoning-capable exactly if
\* chat_with_reasoning accepts it.  (Stated for a server that has its API
\* key.)
C8_ClassifierAgrees ==
    \A s \in Sessions :
        XAI_API_KEY /\ In(s, "chat_with_reasoning") =>
            (is_reasoning_model(call[s].model)
                <=> outcome[s].kind # NotAReasoningModel)

\* C9: a request carries reasoning_effort only if its model is classified
\* reasoning-capable and is not grok-4; it carries presence_penalty,
\* frequency_penalty or stop only if its model is not classified
\* reasoning-capable.
C9_GatedFields ==
    \A s \in Sessions :
        Sent(s) =>
            LET r == Val(request[s]) IN
            /\ r.reasoning_effort # None
                  => is_reasoning_model(r.model) /\ r.model # "grok-4"
            /\ r.presence_penalty # None \/ r.frequency_penalty # None
                  \/ r.stop # None
                  => ~is_reasoning_model(r.model)

\* C10, as stated: a chat call that fails leaves the conversation as it was
\* before the call.
C10_AsStated ==
    \A s \in Sessions :
        In(s, "chat") /\ pc[s] = "raised" =>
            conversation_history = entry_history[s]

\* C10, amended: a chat call that has not succeeded has appended nothing:
\* with use_conversation_history=true the conversation is as it was before
\* the call, with use_conversation_history=false it is empty, reset on
\* entry and not restored by the failure.
C10_FailedCall ==
    \A s \in Sessions :
        In(s, "chat") /\ pc[s] \in {"awaiting", "raised"} =>
            conversation_history =
                IF call[s].use_conversation_history
                THEN entry_history[s] ELSE <<>>

C10_Witness ==
    \E s \in Sessions :
        /\ In(s, "chat") /\ pc[s] = "raised"
        /\ call[s].use_conversation_history
        /\ outcome[s].kind = KeyError
        /\ Len(entry_history[s]) = 2

---------------------------------------------------------------------------
(* Properties of live_search, stateful_chat and retrieve_stateful_response, *)
(* checked under SpecTools                                                  *)

\* the first item of `output` of the given kind, as a sequence of at most
\* one item
FirstOfKind(output, isKind(_)) ==
    LET idx == {i \in 1..Len(output) : isKind(output[i])} IN
    IF idx = {} THEN <<>>
    ELSE <<output[CHOOSE i \in idx : \A j \in idx : i <= j]>>

IsAssistantMessage(item) == item.type = "message" /\ item.role = "assistant"
IsReasoning(item) == item.type = "reasoning"

\* C1: the content returned by stateful_chat and retrieve_stateful_response
\* is the first output_text part of the first assistant message item of the
\* output array, and the reasoning returned is the first summary_text part
\* of the first reasoning item; later items of the same kind do not change
\* the result.  (Stated for the output arrays whose first assistant message
\* has an output_text part and whose first reasoning item has a
\* summary_text part.)
C1_FirstItemsWin ==
    \A s \in Sessions :
        In(s, "stateful_chat") \/ In(s, "retrieve_stateful_response") =>
            (pc[s] = "returned" =>
                LET output == Val(response[s]).output
                    msg == FirstOfKind(output, IsAssistantMessage)
                    rsn == FirstOfKind(output, IsReasoning)
                IN  /\ msg # <<>> /\ FirstText(msg[1].content, "output_text") # None
                        => outcome[s].content =
                              Val(FirstText(msg[1].content, "output_text"))
                    /\ rsn # <<>> /\ FirstText(rsn[1].summary, "summary_text") # None
                        => outcome[s].reasoning =
                              FirstText(rsn[1].summary, "summary_text"))

\* the request of session s is a live_search request whose call gave RSS
\* links link1 and link2, no sources and no country
RssOnlySearch(s) ==
    /\ In(s, "live_search") /\ Sent(s)
    /\ call[s].sources = None /\ call[s].country = None
    /\ call[s].rss_links = Some(<<"link1", "link2">>)

SentSources(s) == Val(Val(request[s]).search_parameters).sources

\* C6, as stated: live_search with only the RSS links [link1, link2] sends
\* the sources [{rss, link1}, {rss, link2}] and no web, news or x entry.
C6_AsStated ==
    \A s \in Sessions :
        RssOnlySearch(s) =>
            SentSources(s) = Some(<<Source("rss", None, Some(<<"link1">>)),
                                    Source("rss", None, Some(<<"link2">>))>>)

\* C6, amended: live_search with only the RSS links [link1, link2] sends the
\* sources [{web}, {news}, {x}, {rss, [link1]}, {rss, [link2]}]: the
\* unscoped web, news and x entries come first.
C6_RssAfterDefaults ==
    \A s \in Sessions :
        RssOnlySearch(s) =>
            SentSources(s) = Some(<<Source("web", None, None),
                                    Source("news", None, None),
                                    Source("x", None, None),
                                    Source("rss", None, Some(<<"link1">>)),
                                    Source("rss", None, Some(<<"link2">>))>>)

C6_Witness ==
    \E s \in Sessions :
        /\ RssOnlySearch(s) /\ pc[s] = "returned"
        /\ Len(Val(SentSources(s))) = 5

\* C7: live_search given an explicit source list sends that list and never
\* the synthesized web, news, x and rss entries, whatever country and
\* rss_links are, also when the list is empty.  (An empty list sent as no
\* sources field is taken as unchanged.)
C7_ExplicitSources ==
    \A s \in Sessions :
        In(s, "live_search") /\ Sent(s) /\ call[s].sources # None =>
            \/ SentSources(s) = call[s].sources
            \/ call[s].sources = Some(<<>>) /\ SentSources(s) = None


---------------------------------------------------------------------------
(* Properties of chat_with_vision and of all handlers, checked under       *)
(* SpecServer                                                              *)

\* the extension of path p is none of jpg, jpeg, png (in any letter case)
UnsupportedPath(p) ==
    lower(p.suffix) \notin {<<".", "j", "p", "g">>, <<".", "j", "p", "e", "g">>,
                            <<".", "p", "n", "g">>}

\* the image_paths of the vision invocation of session s
LocalPaths(s) ==
    IF call[s].image_paths = None THEN <<>> ELSE Val(call[s].image_paths)

\* the file at path p was opened by the invocation of session s
Opened(s, p) == \E i \in 1..Len(opened[s]) : opened[s][i] = p

\* C11: chat_with_vision given, at any position of image_paths, a path whose
\* extension is none of jpg, jpeg, png raises InvalidArgument; that file is
\* never opened, no client is created and no request is issued.
C11_BadExtension ==
    \A s \in Sessions :
        In(s, "chat_with_vision") =>
            \A i \in 1..Len(LocalPaths(s)) :
                UnsupportedPath(LocalPaths(s)[i]) =>
                    /\ RejectedLocally(s)
                    /\ ~Opened(s, LocalPaths(s)[i])

\* a vision invocation was rejected for the unsupported second path after
\* the first path was opened and encoded
C11_Witness ==
    \E s \in Sessions :
        /\ In(s, "chat_with_vision")
        /\ Len(LocalPaths(s)) = 2
        /\ ~UnsupportedPath(LocalPaths(s)[1])
        /\ UnsupportedPath(LocalPaths(s)[2])
        /\ opened[s] = <<LocalPaths(s)[1]>>
        /\ outcome[s].kind = UnsupportedImageType
        /\ RejectedLocally(s)


\* the tools that take a model and send a request to it
ModelTakingTools ==
    {"chat", "chat_with_reasoning", "live_search", "chat_with_vision",
     "stateful_chat"}

\* the invocation of session s has created its HTTP client
HasClient(s) == client[s] # NoClient

\* C12, as stated: the client of every model-taking tool has the timeout the
\* classifier gives for the model, 600 for a reasoning model and 120
\* otherwise.
C12_AsStated ==
    \A s \in Sessions :
        HasClient(s) /\ call[s].op \in ModelTakingTools =>
            client[s].timeout =
                IF is_reasoning_model(call[s].model) THEN 600 ELSE 120

\* C12, amended: chat and stateful_chat create their client with the
\* classifier's timeout for the model (600 for a reasoning model, 120
\* otherwise); chat_with_reasoning always uses 3600; live_search and
\* chat_with_vision always use the client default of 120, whatever the model.
C12_Timeouts ==
    \A s \in Sessions :
        HasClient(s) =>
            /\ call[s].op \in {"chat", "stateful_chat"} =>
                   client[s].timeout =
                       IF is_reasoning_model(call[s].model) THEN 600 ELSE 120
            /\ call[s].op = "chat_with_reasoning" => client[s].timeout = 3600
            /\ call[s].op \in {"live_search", "chat_with_vision"} =>
                   client[s].timeout = 120

\* chat awaits the response of a reasoning model on a client created with
\* the 600 s timeout
C12_Witness ==
    \E s \in Sessions :
        /\ In(s, "chat") /\ pc[s] = "awaiting"
        /\ is_reasoning_model(call[s].model)
        /\ client[s].timeout = 600


\* the content list of the one message a vision invocation has sent
SentContent(s) == Val(request[s]).messages[1].content

\* the image_urls of the vision invocation of session s
RemoteUrls(s) ==
    IF call[s].image_urls = None THEN <<>> ELSE Val(call[s].image_urls)

\* C13: the message chat_with_vision sends has a non-empty content list,
\* whatever image_paths, image_urls and prompt are: one image part per local
\* path and per URL, followed by exactly one text part.
C13_ContentList ==
    \A s \in Sessions :
        In(s, "chat_with_vision") /\ Sent(s) =>
            LET content == SentContent(s)
                images == Len(LocalPaths(s)) + Len(RemoteUrls(s))
            IN  /\ content # <<>>
                /\ Len(content) = images + 1
                /\ \A i \in 1..Len(content) :
                       content[i].type =
                           IF i <= images THEN "image_url" ELSE "text"


\* the invocation of session s has returned or raised
Over(s) == pc[s] \in {"returned", "raised"}

\* C14: when an invocation that created an HTTP client returns or raises,
\* on success, on a non-2xx status and on a body without the expected
\* fields alike, its client has been closed.
C14_ClientClosed ==
    \A s \in Sessions : Over(s) /\ HasClient(s) => client[s].state = "closed"


---------------------------------------------------------------------------
(* Properties of overlapping chat invocations, checked under               *)
(* SpecConcurrent                                                          *)

\* the invocation of session s begins in this step
Begins(s) == pc[s] = "idle" /\ pc'[s] # "idle"

\* the invocation of session s returns in this step
Returns(s) == pc[s] # "returned" /\ pc'[s] = "returned"

\* C15: overlapping chat invocations of different sessions work on the one
\* conversation_history with no protection.  In every step, whatever the
\* other session is doing: a call that begins with
\* use_conversation_history=False empties the list; a history-retaining call
\* that begins sends the list as it is, whichever session's turns it holds;
\* and a history-retaining call that returns appends its turn to the list as
\* it is then, not as the call read it.  (C15_Witness is the interference
\* this allows.)
C15_SharedConversation ==
    [][\A s \in Sessions :
          /\ Begins(s) /\ ~call'[s].use_conversation_history =>
                 conversation_history' = <<>>
          /\ Begins(s) /\ call'[s].use_conversation_history =>
                 /\ conversation_history' = conversation_history
                 /\ pc'[s] = "awaiting" =>
                        Val(request'[s]).messages =
                            ChatMessages(call'[s], conversation_history)
          /\ Returns(s) /\ call[s].use_conversation_history =>
                 conversation_history' =
                     conversation_history
                     \o <<Message("user", call[s].prompt),
                          Message("assistant", outcome'[s].content)>>
      ]_vars

\* a history-retaining call of session s is in flight, its request replays a
\* turn of the other session t, and a call of t with
\* use_conversation_history=False, begun since, has emptied the history that
\* s had read
C15_Witness ==
    \E s \in Sessions : \E t \in Sessions \ {s} :
        /\ pc[s] = "awaiting" /\ call[s].use_conversation_history
        /\ entry_history[s] # <<>>
        /\ entry_history[s][1] = Message("user", SessionPrompt(t))
        /\ Val(request[s]).messages[1] = Message("user", SessionPrompt(t))
        /\ pc[t] = "awaiting" /\ ~call[t].use_conversation_history
        /\ entry_history[t] = entry_history[s]
        /\ conversation_history = <<>>

\* C16: conversation_history always has even length and alternates user
\* and assistant messages from a user message on, so it holds no system
\* message: the two messages of a call are appended in one step, whatever
\* the interleaving, outcomes and use_conversation_history values.
C16_Alternates ==
    /\ Len(conversation_history) % 2 = 0
    /\ \A i \in 1..Len(conversation_history) :
           conversation_history[i].role =
               IF i % 2 = 1 THEN "user" ELSE "assistant"


\* two history-retaining calls that both began on the empty list have both
\* returned: conversation_history holds the turn of one session, then the
\* turn of the other
C16_Witness ==
    \E s \in Sessions : \E t \in Sessions \ {s} :
        /\ pc[s] = "returned" /\ pc[t] = "returned"
        /\ call[s].use_conversation_history /\ call[t].use_conversation_history
        /\ entry_history[s] = <<>> /\ entry_history[t] = <<>>
        /\ Len(conversation_history) = 4
        /\ conversation_history[1] = Message("user", SessionPrompt(s))
        /\ conversation_history[3] = Message("user", SessionPrompt(t))


=============================================================================
